---- MODULE Spec2Model ----
(***************************************************************************)
(* notifyd: a notification daemon that turns a text received over HTTP     *)
(* into speech with an external TTS engine and plays it on the local       *)
(* sound device or casts it to a chromecast (src/src/main.rs).             *)
(*                                                                         *)
(* The daemon is started once (Notifyd::new), then every worker of the     *)
(* HTTP server runs route_request for one request at a time.  A worker's   *)
(* position is req[w].pc; the steps are cut at the blocking external       *)
(* calls (engine, sound device, go-chromecast), where other workers run.   *)
(***************************************************************************)
EXTENDS Naturals, Sequences, FiniteSets

\* ------------------------------------------------------------------ bounds
NumWorkers == 2
MaxClock == 2

Workers == 1..NumWorkers

\* --------------------------------------------------------- program values
Port == 8090
LocalSpeaker == "Use Local Speaker"

\* TTSEngine (the AUTO meta value last) and the candidates probed for AUTO
TTSEngine == {"PICO2WAV", "ESPEAK", "ESPEAKNG", "AUTO"}
CandidateEngines == <<"PICO2WAV", "ESPEAK", "ESPEAKNG">>

\* a path or URL component: a literal, or "<hex digest>.wav"
Lit(s) == [lit |-> s, hash |-> <<>>]
Wav(h) == [lit |-> ".wav", hash |-> h]

\* ------------------------------------------------------------- environment
\* binaries `which` may find in PATH
Binaries == {"pico2wave", "espeak", "espeak-ng", "go-chromecast"}
\* device ids given on the command line (--chromecast-uuid)
TargetUuids == {LocalSpeaker, "dev1"}
\* texts and device ids found in request bodies
Texts == {<<"h", "i">>}
Uids == {"dev1"}
\* standard-error bytes of a failed child: "Ae-acute" (three bytes), and the
\* same cut after its second byte, which is not UTF-8
StderrSamples == {<<65, 195, 169>>, <<65, 195>>}
\* the scratch directory made by TempDir::new("notifydtts")
TmpDir == <<Lit("tmp"), Lit("notifydtts")>>
\* regular files that exist outside the scratch directory
OutsideFiles == {<<Lit("tmp"), Lit("secret")>>}

VARIABLES
    daemon,   \* "starting", "running", "startup_error", "startup_panic", "aborted"
    path,     \* the binaries locatable through PATH
    cfg,      \* the Notifyd/TTS structure built at startup
    clock,    \* SystemTime::now() in microseconds
    files,    \* the regular files of the file system, as absolute paths
    voices,   \* the workers whose sentence is playing on the Soloud device
    req       \* per worker: the request it handles and its position

vars == <<daemon, path, cfg, clock, files, voices, req>>

\* ------------------------------------------------------------ now_in_usecs
\* decimal digits of a number, as format!("{}", n) writes them
RECURSIVE Decimal(_)
Decimal(n) ==
    LET d == <<"0", "1", "2", "3", "4", "5", "6", "7", "8", "9">>[(n % 10) + 1]
    IN IF n < 10 THEN <<d>> ELSE Append(Decimal(n \div 10), d)

\* md5 as an ideal digest: distinct inputs give distinct digests
md5(to_hash) == to_hash

\* ------------------------------------------------------------------ errors
\* the text of a Box<dyn Error>: a fixed message followed by captured text
NoErr == [msg |-> "", text |-> <<>>]
Msg(m) == [msg |-> m, text |-> <<>>]
NotifydError(text) == [msg |-> "", text |-> text]

\* String::from_utf8 on bytes of one and two byte sequences: the code points,
\* or invalid
RECURSIVE FromUtf8(_)
FromUtf8(b) ==
    IF b = <<>> THEN [ok |-> TRUE, text |-> <<>>]
    ELSE IF b[1] < 128
         THEN LET r == FromUtf8(Tail(b))
              IN [ok |-> r.ok, text |-> IF r.ok THEN <<b[1]>> \o r.text ELSE <<>>]
    ELSE IF b[1] >= 194 /\ b[1] <= 223 /\ Len(b) >= 2 /\ b[2] >= 128 /\ b[2] <= 191
         THEN LET r == FromUtf8(Tail(Tail(b)))
              IN [ok |-> r.ok,
                  text |-> IF r.ok THEN <<(b[1] - 192) * 64 + (b[2] - 128)>> \o r.text
                           ELSE <<>>]
    ELSE [ok |-> FALSE, text |-> <<>>]

\* the bytes of a text (code points below 2048)
RECURSIVE Utf8Bytes(_)
Utf8Bytes(t) ==
    IF t = <<>> THEN <<>>
    ELSE IF t[1] < 128 THEN <<t[1]>> \o Utf8Bytes(Tail(t))
    ELSE <<192 + (t[1] \div 64), 128 + (t[1] % 64)>> \o Utf8Bytes(Tail(t))

\* ------------------------------------------------------ external processes
\* what Command::output() can bring back
Exit0 == [kind |-> "exit0", stderr |-> <<>>]
SpawnErr == [kind |-> "spawn_err", stderr |-> <<>>]
NonZero(b) == [kind |-> "nonzero", stderr |-> b]
RunOutcomes == {Exit0, SpawnErr} \cup {NonZero(b) : b \in StderrSamples}

\* the shape shared by speak_to_file and do_run: `output()?`, then on a
\* failed status String::from_utf8(stderr).unwrap() becomes the error
CommandResult(o) ==
    IF o.kind = "spawn_err" THEN [res |-> "err", err |-> Msg("io error")]
    ELSE IF o.kind = "exit0" THEN [res |-> "ok", err |-> NoErr]
    ELSE IF FromUtf8(o.stderr).ok
         THEN [res |-> "err", err |-> NotifydError(FromUtf8(o.stderr).text)]
    ELSE [res |-> "panic", err |-> NoErr]

\* --------------------------------------------------------------- responses
NoResp ==
    [status |-> 0, kind |-> "none", success |-> FALSE, reason |-> "",
     err |-> NoErr, file |-> <<>>]

error_response(reason, err) ==
    [status |-> 400, kind |-> "json", success |-> FALSE, reason |-> reason,
     err |-> err, file |-> <<>>]

success_response(reason) ==
    [status |-> 200, kind |-> "json", success |-> TRUE, reason |-> reason,
     err |-> NoErr, file |-> <<>>]

\* Response::empty_404()
empty_404 ==
    [status |-> 404, kind |-> "empty", success |-> FALSE, reason |-> "",
     err |-> NoErr, file |-> <<>>]

\* Response::from_file("audio/wav", f)
from_file(f) ==
    [status |-> 200, kind |-> "file", success |-> FALSE, reason |-> "",
     err |-> NoErr, file |-> f]

\* a panic of the handler closure unwinds into rouille::start_server, which
\* answers the request with status 500
Panic500 ==
    [status |-> 500, kind |-> "panic", success |-> FALSE, reason |-> "",
     err |-> NoErr, file |-> <<>>]

\* ------------------------------------------------------------------- paths
\* Path::join: an absolute argument (one that starts with a separator)
\* replaces the base
PathJoin(base, rel) ==
    IF Len(rel) > 1 /\ rel[1] = Lit("") THEN Tail(rel) ELSE base \o rel

\* the file a path names, as the file system resolves it: empty and "."
\* components are skipped, ".." leaves a directory
RECURSIVE Resolve(_, _)
Resolve(done, rest) ==
    IF rest = <<>> THEN done
    ELSE IF rest[1] = Lit("") \/ rest[1] = Lit(".") THEN Resolve(done, Tail(rest))
    ELSE IF rest[1] = Lit("..")
         THEN Resolve(IF done = <<>> THEN <<>> ELSE SubSeq(done, 1, Len(done) - 1),
                      Tail(rest))
    ELSE Resolve(Append(done, rest[1]), Tail(rest))

\* Path::is_file
is_file(p, fs) == Resolve(<<>>, p) \in fs

\* Path::file_name: the last component, none for a path ending in ".."
file_name(p) ==
    IF p = <<>> \/ p[Len(p)] = Lit("..") THEN Lit("") ELSE p[Len(p)]

\* ------------------------------------------------------- engine resolution
which(bin, p) == bin \in p

tts_to_bin_name(engine) ==
    CASE engine = "PICO2WAV" -> "pico2wave"
      [] engine = "ESPEAK" -> "espeak"
      [] engine = "ESPEAKNG" -> "espeak-ng"
      [] OTHER -> "panic"

\* (a loop that gives the requested engine back when it finds none)
ProbeEngines_GivesAuto(i, p) ==
    IF i > Len(CandidateEngines) THEN "AUTO"
    ELSE IF which(tts_to_bin_name(CandidateEngines[i]), p) THEN CandidateEngines[i]
    ELSE "AUTO"
\* the loop over the candidates: a candidate found is returned, one that is
\* not found leaves the loop (`break`), and after the loop comes the panic
ProbeEngines(i, p) ==
    IF i > Len(CandidateEngines) THEN "panic"
    ELSE IF which(tts_to_bin_name(CandidateEngines[i]), p) THEN CandidateEngines[i]
    ELSE "panic"

look_for_candidate_engine(engine, p) ==
    IF engine # "AUTO" THEN engine ELSE ProbeEngines(1, p)

\* TTS::new: the engine to use and the path of its binary, or a panic
TTS_new(engine, p) ==
    LET engine_to_use == look_for_candidate_engine(engine, p)
        bin == IF engine_to_use = "panic" THEN "panic"
               ELSE tts_to_bin_name(engine_to_use)
    IN IF bin = "panic" \/ ~which(bin, p)
       THEN [ok |-> FALSE, engine |-> engine_to_use, enginepath |-> "none"]
       ELSE [ok |-> TRUE, engine |-> engine_to_use, enginepath |-> bin]

\* ---------------------------------------------------------------- requests
\* a request body as rouille::input::json_input sees it: not JSON at all, or
\* a JSON object with or without the fields text and uid
NoBody == [json |-> FALSE, hasText |-> FALSE, text |-> <<>>, hasUid |-> FALSE, uid |-> ""]
Bodies ==
    {NoBody}
    \cup {[json |-> TRUE, hasText |-> TRUE, text |-> t, hasUid |-> FALSE, uid |-> ""] :
            t \in Texts}
    \cup {[json |-> TRUE, hasText |-> TRUE, text |-> t, hasUid |-> TRUE, uid |-> u] :
            t \in Texts, u \in Uids}
    \cup {[json |-> TRUE, hasText |-> FALSE, text |-> <<>>, hasUid |-> TRUE, uid |-> u] :
            u \in Uids}

\* the request URL, split at its separators: "/static//x" is <<static, "", x>>
UrlSpeak == <<Lit("action"), Lit("speak")>>
UrlCast == <<Lit("action"), Lit("cast")>>
UrlNotify == <<Lit("notify")>>
StaticPrefix == <<Lit("static")>>
ApiUrls == {UrlSpeak, UrlCast, UrlNotify}
OtherUrls ==
    {<<Lit("nope")>>,
     StaticPrefix,
     StaticPrefix \o <<Lit("")>>,
     StaticPrefix \o <<Lit("missing.wav")>>,
     StaticPrefix \o <<Lit(".."), Lit("secret")>>,
     StaticPrefix \o <<Lit(""), Lit("tmp"), Lit("secret")>>}

\* raw_url.starts_with("/static/")
starts_with_static(url) == Len(url) >= 2 /\ url[1] = Lit("static")

\* json_input into struct Json { text } and into struct Json { text, uid }
json_input_text(body) == body.json /\ body.hasText
\* (a parser that forgets that uid is required)
json_input_text_uid_NoUid(body) == body.json /\ body.hasText
json_input_text_uid(body) == body.json /\ body.hasText /\ body.hasUid

\* what a request did, in order: the steps it went through and the external
\* commands it ran, with their arguments
Ev(op) == [op |-> op, uid |-> "", file |-> <<>>, text |-> <<>>, url |-> <<>>]
EvEngine(outpath, text) == [Ev("engine") EXCEPT !.file = outpath, !.text = text]
EvPlay(p) == [Ev("play") EXCEPT !.file = p]
EvLoad(uid, url) == [Ev("load") EXCEPT !.uid = uid, !.url = url]
EvStop(uid) == [Ev("stop") EXCEPT !.uid = uid]

NoSentence == [ok |-> FALSE, text |-> <<>>, path |-> <<>>]
NoCaster == [ok |-> FALSE, target_uid |-> "", url |-> <<>>]

IdleReq ==
    [pc |-> "idle", url |-> <<>>, body |-> NoBody,
     mode |-> "none", text |-> <<>>, uid |-> "",
     sentence |-> NoSentence, caster |-> NoCaster,
     holds |-> FALSE, pending |-> NoResp, unwinding |-> FALSE,
     trace |-> <<>>, ext |-> <<>>,
     resp |-> NoResp, nresp |-> 0]

\* the handler returns `resp`: its locals are dropped and the request is
\* answered
Respond(r, resp) ==
    [r EXCEPT !.pc = "responded", !.resp = resp, !.nresp = @ + 1, !.holds = FALSE,
              !.trace = Append(@, Ev("respond"))]

\* ----------------------------------------------------------------- startup
Init ==
    /\ daemon = "starting"
    /\ path \in SUBSET Binaries
    /\ cfg = [target_uuid |-> "", engine |-> "none", enginepath |-> "none",
              tmpdir_utf8 |-> TRUE]
    /\ clock = 1
    /\ files = OutsideFiles
    /\ voices = {}
    /\ req = [w \in Workers |-> IdleReq]

\* main: Notifyd::new, that is Soloud::default()? and TTS::new(AUTO)?, then run
Startup ==
    /\ daemon = "starting"
    /\ \E soloud_ok \in BOOLEAN, tmpdir_ok \in BOOLEAN, utf8 \in BOOLEAN,
          target \in TargetUuids :
         LET tts == TTS_new("AUTO", path)
         IN IF ~soloud_ok \/ ~tmpdir_ok
            THEN daemon' = "startup_error" /\ cfg' = cfg
            ELSE IF ~tts.ok
            THEN daemon' = "startup_panic" /\ cfg' = [cfg EXCEPT !.engine = tts.engine]
            ELSE /\ daemon' = "running"
                 /\ cfg' = [target_uuid |-> target, engine |-> tts.engine,
                            enginepath |-> tts.enginepath, tmpdir_utf8 |-> utf8]
    /\ UNCHANGED <<path, clock, files, voices, req>>

\* time passes
Tick ==
    /\ daemon = "running"
    /\ clock < MaxClock
    /\ clock' = clock + 1
    /\ UNCHANGED <<daemon, path, cfg, files, voices, req>>

\* a sentence played on the device comes to its end
VoiceEnd(w) ==
    /\ daemon = "running"
    /\ w \in voices
    /\ voices' = voices \ {w}
    /\ UNCHANGED <<daemon, path, cfg, clock, files, req>>

\* ------------------------------------------------------------ the handlers
\* the server hands a request to a free worker
Accept(w) ==
    /\ daemon = "running"
    /\ req[w].pc = "idle"
    /\ \E in \in (ApiUrls \X Bodies) \cup (OtherUrls \X {NoBody})
                  \cup ({StaticPrefix \o <<file_name(f)>> : f \in files \ OutsideFiles}
                        \X {NoBody}) :
         LET url == in[1]
             body == in[2]
         IN
         req' = [req EXCEPT ![w] =
                    [IdleReq EXCEPT !.pc = "received", !.url = url, !.body = body,
                                    !.trace = <<Ev("received")>>]]
    /\ UNCHANGED <<daemon, path, cfg, clock, files, voices>>

\* (a /notify that ignores its target)
NotifyMode_AlwaysLocal(target_uuid) == "tts"
\* handle_notify_req: which of do_tts and do_bcast serves /notify
NotifyMode(target_uuid) == IF target_uuid = LocalSpeaker THEN "tts" ELSE "bcast"

\* the request goes on to do_tts or do_bcast with the text (and device id)
\* read from its body
Validated(r, mode, uid) ==
    [r EXCEPT !.pc = "synth", !.mode = mode, !.text = r.body.text, !.uid = uid,
              !.trace = Append(@, Ev("validated"))]

BadArguments == error_response("Bad arguments", Msg("json error"))

handle_tts_request(r) ==
    IF json_input_text(r.body) THEN Validated(r, "tts", "") ELSE Respond(r, BadArguments)

handle_bcast_req(r) ==
    IF json_input_text_uid(r.body) THEN Validated(r, "bcast", r.body.uid)
    ELSE Respond(r, BadArguments)

handle_notify_req(r, target_uuid) ==
    IF ~json_input_text(r.body) THEN Respond(r, BadArguments)
    ELSE IF NotifyMode(target_uuid) = "tts" THEN Validated(r, "tts", "")
    ELSE Validated(r, "bcast", target_uuid)

\* the file /static/<name> stands for
StaticTarget(url) == PathJoin(TmpDir, Tail(url))

handle_static_req(r, fs, open_ok) ==
    LET target_path == StaticTarget(r.url)
    IN IF ~is_file(target_path, fs) THEN Respond(r, empty_404)
       ELSE IF open_ok THEN Respond(r, from_file(Resolve(<<>>, target_path)))
       ELSE Respond(r, error_response("Sending static file", Msg("io error")))

route_request(r, target_uuid, fs, open_ok) ==
    IF r.url = UrlSpeak THEN handle_tts_request(r)
    ELSE IF r.url = UrlCast THEN handle_bcast_req(r)
    ELSE IF r.url = UrlNotify THEN handle_notify_req(r, target_uuid)
    ELSE IF starts_with_static(r.url) THEN handle_static_req(r, fs, open_ok)
    ELSE Respond(r, error_response("No such endpoint", Msg("No endpoint")))

\* route_request up to the call of do_tts or do_bcast, or to its response
Route(w) ==
    /\ daemon = "running"
    /\ req[w].pc = "received"
    /\ \E open_ok \in BOOLEAN :
         req' = [req EXCEPT ![w] = route_request(req[w], cfg.target_uuid, files, open_ok)]
    /\ UNCHANGED <<daemon, path, cfg, clock, files, voices>>

\* an outcome of the world outside, as the request met it
Ext(at, kind, stderr, n) == [at |-> at, kind |-> kind, stderr |-> stderr, n |-> n]

\* speak_to_file's output file: <md5(text ++ now_in_usecs())>.wav in the
\* scratch directory
OutFile(text, usecs) == TmpDir \o <<Wav(md5(text \o Decimal(usecs)))>>

\* TtsSentence has no Drop: what happens to its file when the sentence goes
\* out of scope
ReleaseSentence(fs, sentence) == fs

\* speak_to_file, called first by do_tts and by do_bcast
SpeakToFile(w) ==
    LET r == req[w]
        outpath == OutFile(r.text, clock)
        failed == IF r.mode = "tts" THEN "Failed to generate TTS from text"
                  ELSE "Failed to generate TTS"
    IN
    /\ daemon = "running"
    /\ r.pc = "synth"
    /\ IF ~cfg.tmpdir_utf8
       THEN \* outfile.to_str().expect(..) panics
            /\ req' = [req EXCEPT ![w] =
                         Respond([r EXCEPT !.ext = Append(@, Ext("to_str", "none", <<>>, clock))],
                                 Panic500)]
            /\ files' = files
       ELSE \E o \in RunOutcomes :
            LET c == CommandResult(o)
                ran == [r EXCEPT !.trace = Append(@, EvEngine(outpath, r.text)),
                                 !.ext = Append(@, Ext("engine", o.kind, o.stderr, clock))]
            IN IF c.res = "ok"
               THEN /\ files' = files \cup {outpath}
                    /\ req' = [req EXCEPT ![w] =
                                 [ran EXCEPT !.pc = IF r.mode = "tts" THEN "play" ELSE "cast",
                                             !.sentence = [ok |-> TRUE, text |-> r.text,
                                                           path |-> outpath],
                                             !.holds = TRUE,
                                             !.trace = Append(@, Ev("synthesized"))]]
               ELSE IF c.res = "err"
               THEN /\ files' = files
                    /\ req' = [req EXCEPT ![w] = Respond(ran, error_response(failed, c.err))]
               ELSE /\ files' = files
                    /\ req' = [req EXCEPT ![w] = Respond(ran, Panic500)]
    /\ UNCHANGED <<daemon, path, cfg, clock, voices>>

\* do_tts, TtsSentence::play: wav.load(path)?, then sl.play(&wav)
Play(w) ==
    LET r == req[w]
        called == [r EXCEPT !.trace = Append(@, EvPlay(r.sentence.path))]
    IN
    /\ daemon = "running"
    /\ r.pc = "play"
    /\ \E decode_ok \in BOOLEAN :
         IF decode_ok /\ is_file(r.sentence.path, files)
         THEN /\ voices' = voices \cup {w}
              /\ files' = files
              /\ req' = [req EXCEPT ![w] =
                           [called EXCEPT !.pc = "polling",
                                          !.ext = Append(@, Ext("wav", "ok", <<>>, 0))]]
         ELSE /\ voices' = voices
              /\ files' = ReleaseSentence(files, r.sentence)
              /\ req' = [req EXCEPT ![w] =
                           Respond([called EXCEPT !.ext = Append(@, Ext("wav", "err", <<>>, 0))],
                                   error_response("Failed playing text", Msg("wav error")))]
    /\ UNCHANGED <<daemon, path, cfg, clock>>

\* (a wait that ends at once)
PlaybackDone_Always(w, v) == TRUE
\* (a wait for the request's own voice only)
PlaybackDone_OwnVoice(w, v) == w \notin v
\* the test that ends `while sl.voice_count() > 0`: no voice is active on the
\* device, whoever started it
PlaybackDone(w, v) == ~(Cardinality(v) > 0)

\* the loop `while sl.voice_count() > 0 { sleep(100 ms) }` is left when the
\* device has no active voice: play returns, and do_tts answers
Poll(w) ==
    LET r == req[w]
    IN
    /\ daemon = "running"
    /\ r.pc = "polling"
    /\ PlaybackDone(w, voices)
    /\ req' = [req EXCEPT ![w] =
                 Respond(r, success_response("Done emitting requested text"))]
    /\ files' = ReleaseSentence(files, r.sentence)
    /\ UNCHANGED <<daemon, path, cfg, clock, voices>>

\* http://<local ip>:<port>/static/<file name of the sentence>
sentence_static_url(sentence) ==
    <<Lit("http:"), Lit(""), [lit |-> "local_ip:", hash |-> Decimal(Port)],
      Lit("static"), file_name(sentence.path)>>

\* (a caster that does not look for its tool)
has_go_chromecast_Always(p) == TRUE
\* Caster::has_go_chromecast
has_go_chromecast(p) == which("go-chromecast", p)

\* do_bcast after the synthesis: sentence_static_url(sentence), which takes
\* the sentence and unwraps local_ip(), then Caster::new(uid, url)
NewCaster(w) ==
    LET r == req[w]
        url == sentence_static_url(r.sentence)
    IN
    /\ daemon = "running"
    /\ r.pc = "cast"
    /\ files' = ReleaseSentence(files, r.sentence)
    /\ \E ip_ok \in BOOLEAN :
         LET seen == [r EXCEPT !.ext = Append(@, Ext("local_ip",
                                                     IF ip_ok THEN "ok" ELSE "err", <<>>, 0))]
         IN IF ~ip_ok
            THEN req' = [req EXCEPT ![w] = Respond(seen, Panic500)]
            ELSE IF ~has_go_chromecast(path)
            THEN req' = [req EXCEPT ![w] =
                           Respond(seen, error_response("Failed start cast",
                                        Msg("Cannot locate go-chromecast in path")))]
            ELSE req' = [req EXCEPT ![w] =
                           [seen EXCEPT !.pc = "load", !.holds = FALSE,
                                        !.caster = [ok |-> TRUE, target_uid |-> r.uid,
                                                    url |-> url]]]
    /\ UNCHANGED <<daemon, path, cfg, clock, voices>>

\* c.load(): go-chromecast load -u <uid> <url>; the response is built, and
\* the caster is still to be dropped
Load(w) ==
    LET r == req[w]
    IN
    /\ daemon = "running"
    /\ r.pc = "load"
    /\ \E o \in RunOutcomes :
         LET c == CommandResult(o)
             ran == [r EXCEPT !.pc = "drop",
                              !.trace = Append(@, EvLoad(r.caster.target_uid, r.caster.url)),
                              !.ext = Append(@, Ext("load", o.kind, o.stderr, 0))]
         IN req' = [req EXCEPT ![w] =
                      IF c.res = "ok"
                      THEN [ran EXCEPT !.pending = success_response("Content casted")]
                      ELSE IF c.res = "err"
                      THEN [ran EXCEPT !.pending =
                                          error_response("Failed to cast content", c.err)]
                      ELSE [ran EXCEPT !.unwinding = TRUE]]
    /\ UNCHANGED <<daemon, path, cfg, clock, files, voices>>

\* (a caster without its Drop)
DropStop_Missing(trace, caster) == trace
\* what Drop for Caster adds to the commands of the request
DropStop(trace, caster) == Append(trace, EvStop(caster.target_uid))

\* the caster goes out of scope: drop runs `let _ = self.stop()`, that is
\* go-chromecast stop -u <uid>, and then do_bcast returns its response.  A
\* panic in stop ends the handler, and a panic in stop while load's panic
\* unwinds aborts the process
DropCaster(w) ==
    LET r == req[w]
    IN
    /\ r.pc = "drop"
    /\ daemon = "running"
    /\ \E o \in RunOutcomes :
         LET c == CommandResult(o)
             ran == [r EXCEPT !.trace = DropStop(@, r.caster),
                              !.ext = Append(@, Ext("stop", o.kind, o.stderr, 0))]
         IN IF c.res = "panic" /\ r.unwinding
            THEN /\ daemon' = "aborted"
                 /\ req' = [req EXCEPT ![w] = [ran EXCEPT !.pc = "aborted"]]
            ELSE /\ daemon' = daemon
                 /\ req' = [req EXCEPT ![w] =
                              IF c.res = "panic" \/ r.unwinding THEN Respond(ran, Panic500)
                              ELSE Respond(ran, r.pending)]
    /\ UNCHANGED <<path, cfg, clock, files, voices>>

\* the response is sent and the worker is free again
Finish(w) ==
    /\ daemon = "running"
    /\ req[w].pc = "responded"
    /\ req' = [req EXCEPT ![w] = IdleReq]
    /\ UNCHANGED <<daemon, path, cfg, clock, files, voices>>

Next ==
    \/ Startup
    \/ Tick
    \/ \E w \in Workers : VoiceEnd(w)
    \/ \E w \in Workers : Accept(w)
    \/ \E w \in Workers : Route(w)
    \/ \E w \in Workers : SpeakToFile(w)
    \/ \E w \in Workers : Play(w)
    \/ \E w \in Workers : Poll(w)
    \/ \E w \in Workers : NewCaster(w)
    \/ \E w \in Workers : Load(w)
    \/ \E w \in Workers : DropCaster(w)
    \/ \E w \in Workers : Finish(w)

Spec == Init /\ [][Next]_vars

\* a finite set of requests: every worker handles one request and the server
\* takes no further one
NextFinite ==
    \/ Startup
    \/ Tick
    \/ \E w \in Workers : VoiceEnd(w)
    \/ \E w \in Workers : Accept(w)
    \/ \E w \in Workers : Route(w)
    \/ \E w \in Workers : SpeakToFile(w)
    \/ \E w \in Workers : Play(w)
    \/ \E w \in Workers : Poll(w)
    \/ \E w \in Workers : NewCaster(w)
    \/ \E w \in Workers : Load(w)
    \/ \E w \in Workers : DropCaster(w)

\* every worker thread goes on running, every external process returns (the
\* steps SpeakToFile, Load and DropCaster end), and every sentence played
\* comes to its end
Fairness ==
    \A w \in Workers :
        /\ WF_vars(VoiceEnd(w))
        /\ WF_vars(Route(w))
        /\ WF_vars(SpeakToFile(w))
        /\ WF_vars(Play(w))
        /\ WF_vars(Poll(w))
        /\ WF_vars(NewCaster(w))
        /\ WF_vars(Load(w))
        /\ WF_vars(DropCaster(w))

FairSpec == Init /\ [][NextFinite]_vars /\ Fairness

\* ======================================================== the claims
\* what a request did
HasOp(r, op) == \E i \in 1..Len(r.trace) : r.trace[i].op = op
CountOp(r, op) == Cardinality({i \in 1..Len(r.trace) : r.trace[i].op = op})
Before(r, a, b) ==
    \A j \in 1..Len(r.trace) :
        r.trace[j].op = b => \E i \in 1..(j - 1) : r.trace[i].op = a
\* what a request met
Met(r, at, kind) == \E i \in 1..Len(r.ext) : r.ext[i].at = at /\ r.ext[i].kind = kind

\* C1: when synthesis succeeded, the generated file exists right after the
\* synthesis and no longer exists once the request has been responded to.
C1_ArtifactGoneAfterResponse ==
    \A w \in Workers :
        req[w].sentence.ok =>
            /\ req[w].pc \in {"play", "cast"} => req[w].sentence.path \in files
            /\ req[w].pc = "responded" => req[w].sentence.path \notin files

\* C2: two requests in flight that synthesized equal texts have distinct
\* generated file names.
C2_DistinctFileNames ==
    \A w1, w2 \in Workers :
        (w1 # w2 /\ req[w1].sentence.ok /\ req[w2].sentence.ok
            /\ req[w1].sentence.text = req[w2].sentence.text)
        => req[w1].sentence.path # req[w2].sentence.path

\* C3: resolution of AUTO returns the first locatable candidate in the order
\* pico2wave, espeak, espeak-ng, for every set of locatable candidates, and
\* startup ends in the fatal error only when none of the three is locatable.
C3_AutoPicksFirstLocatable ==
    LET found == {i \in 1..Len(CandidateEngines) :
                    tts_to_bin_name(CandidateEngines[i]) \in path}
    IN /\ daemon = "startup_panic" => found = {}
       /\ daemon = "running" =>
            /\ found # {}
            /\ \E i \in found : /\ \A j \in found : i <= j
                                /\ cfg.engine = CandidateEngines[i]

\* the place of a step in Received, Validated, Synthesized, Played or Casted,
\* Responded
Rank(op) ==
    CASE op = "received" -> 0
      [] op = "validated" -> 1
      [] op = "engine" -> 2
      [] op = "synthesized" -> 3
      [] op \in {"play", "load", "stop"} -> 4
      [] OTHER -> 5

Failed(r) == r.pc = "responded" /\ r.resp.kind # "file" /\ ~r.resp.success
NotFound(r) ==
    /\ r.url \notin ApiUrls
    /\ starts_with_static(r.url) => ~is_file(StaticTarget(r.url), files)

\* C5: a failed request is answered with the JSON error envelope, with
\* status 404 for not-found (unknown route, static name absent or not a
\* regular file) and status 400 for every other failure.
C5_ErrorEnvelopeAndStatus ==
    \A w \in Workers :
        Failed(req[w]) =>
            /\ req[w].resp.kind = "json"
            /\ req[w].resp.status = IF NotFound(req[w]) THEN 404 ELSE 400

\* C6: whatever the external processes and the I/O of a request do, the
\* handler returns a JSON error envelope and does not panic.
C6_NoHandlerPanic ==
    \A w \in Workers :
        /\ req[w].pc # "aborted"
        /\ req[w].pc = "responded" => req[w].resp.kind # "panic"

\* C7: a request runs the engine at most once and the load command at most
\* once, and when one of them exits nonzero the response is the error
\* envelope whose err is the captured standard-error, unchanged.
C7_NoRetryVerbatimStderr ==
    \A w \in Workers :
        LET r == req[w]
        IN /\ CountOp(r, "engine") <= 1
           /\ CountOp(r, "load") <= 1
           /\ \A i \in 1..Len(r.ext) :
                (r.pc = "responded" /\ r.ext[i].at \in {"engine", "load"}
                    /\ r.ext[i].kind = "nonzero")
                => /\ r.resp.kind = "json" /\ ~r.resp.success
                   /\ r.resp.err.msg = ""
                   /\ Utf8Bytes(r.resp.err.text) = r.ext[i].stderr

\* C8: once a caster exists, one stop command for its device id is issued
\* after the load command returned and before the response, whether load
\* succeeded or failed.
C8_StopAfterLoadBeforeResponse ==
    \A w \in Workers :
        LET r == req[w]
        IN /\ HasOp(r, "stop") => r.caster.ok
           /\ r.caster.ok =>
                /\ CountOp(r, "stop") <= 1
                /\ Before(r, "load", "stop")
                /\ \A i \in 1..Len(r.trace) :
                     r.trace[i].op = "stop" => r.trace[i].uid = r.caster.target_uid
                /\ r.pc \in {"responded", "aborted"} => CountOp(r, "stop") = 1
                /\ Before(r, "stop", "respond")
                /\ r.pc = "drop" <=> (HasOp(r, "load") /\ ~HasOp(r, "stop"))

C8_Witness ==
    \E w1, w2 \in Workers :
        /\ req[w1].pc = "responded" /\ Met(req[w1], "load", "nonzero")
        /\ HasOp(req[w1], "stop")
        /\ req[w2].pc = "responded" /\ Met(req[w2], "load", "exit0")
        /\ HasOp(req[w2], "stop")

\* C9: without go-chromecast, a request that casts (/action/cast, or /notify
\* with a device as target) runs no load and no stop command and never plays
\* on the local device, and its response is an error.
C9_NoCastToolNoCommand ==
    \A w \in Workers :
        LET r == req[w]
        IN ("go-chromecast" \notin path
              /\ (r.url = UrlCast \/ (r.url = UrlNotify /\ cfg.target_uuid # LocalSpeaker)))
           =>
              /\ ~HasOp(r, "load") /\ ~HasOp(r, "stop") /\ ~HasOp(r, "play")
              /\ ~r.caster.ok
              /\ w \notin voices
              /\ r.pc = "responded" => (~r.resp.success /\ r.resp.status >= 400)
              /\ (r.pc = "responded" /\ Met(r, "local_ip", "ok")) =>
                    r.resp = error_response("Failed start cast",
                                            Msg("Cannot locate go-chromecast in path"))

C9_Witness ==
    \E w \in Workers :
        /\ "go-chromecast" \notin path
        /\ req[w].url = UrlNotify
        /\ req[w].pc = "responded"
        /\ req[w].resp.reason = "Failed start cast"

\* /notify and an action endpoint, given the same text
SameText(r1, r2) ==
    /\ r1.body.json = r2.body.json
    /\ r1.body.hasText = r2.body.hasText
    /\ r1.body.text = r2.body.text

\* r2 is the action request /notify stands for
NotifyTwin(r1, r2) ==
    /\ r1.pc = "responded" /\ r2.pc = "responded"
    /\ r1.url = UrlNotify
    /\ SameText(r1, r2)
    /\ r1.ext = r2.ext
    /\ IF cfg.target_uuid = LocalSpeaker THEN r2.url = UrlSpeak
       ELSE /\ r2.url = UrlCast
            /\ r2.body.json => (r2.body.hasUid /\ r2.body.uid = cfg.target_uuid)

\* C10: on the same text and the same external outcomes, /notify runs the
\* same commands and gives the same response as /action/speak when the
\* target is the local speaker, and as /action/cast with the target as uid
\* otherwise.
C10_NotifyIsSpeakOrCast ==
    \A w1, w2 \in Workers :
        NotifyTwin(req[w1], req[w2]) =>
            /\ req[w1].trace = req[w2].trace
            /\ req[w1].resp = req[w2].resp

C10_Witness ==
    \E w1, w2 \in Workers :
        /\ NotifyTwin(req[w1], req[w2])
        /\ req[w2].url = UrlCast
        /\ HasOp(req[w1], "stop")
        /\ req[w1].resp.success

\* a path that lies inside the scratch directory
InScratch(f) == Len(f) > Len(TmpDir) /\ SubSeq(f, 1, Len(TmpDir)) = TmpDir

\* C11: the file served for /static/<name> lies inside the scratch directory,
\* also for names with parent-directory components or a leading separator.
C11_StaticStaysInScratch ==
    \A w \in Workers :
        (req[w].pc = "responded" /\ req[w].resp.kind = "file") =>
            /\ InScratch(req[w].resp.file)
            /\ InScratch(Resolve(<<>>, StaticTarget(req[w].url)))

\* C12: a request that played its sentence on the local device is not
\* answered while that sentence is still playing.
C12_NoResponseWhilePlaying ==
    \A w \in Workers :
        /\ (req[w].pc = "responded" /\ HasOp(req[w], "play")) => w \notin voices
        /\ w \in voices => req[w].pc = "polling"

C12_Witness ==
    \E w \in Workers :
        /\ req[w].pc = "responded"
        /\ Met(req[w], "wav", "ok")
        /\ req[w].resp = success_response("Done emitting requested text")

\* C13: at most one sentence plays on the shared device at any time.
C13_OneVoiceAtATime == Cardinality(voices) <= 1

\* C14: from the moment a cast request is about to issue its load command
\* until the command has returned, the request still owns the sentence of its
\* synthesis and the file of the cast URL is in the scratch directory.
C14_SentenceHeldDuringLoad ==
    \A w \in Workers :
        req[w].pc \in {"load", "drop"} =>
            /\ req[w].holds
            /\ req[w].sentence.path \in files

\* a request that ran its stop command and came to its end
StopRan(r) == r.pc \in {"responded", "aborted"} /\ HasOp(r, "stop")
\* what the request met before the stop command
ExtBeforeStop(r) == SubSeq(r.ext, 1, Len(r.ext) - 1)

\* C15: two cast requests that differ in the outcome of the stop command
\* only are answered alike: stop never changes the response.
C15_StopNeverChangesResponse ==
    \A w1, w2 \in Workers :
        (StopRan(req[w1]) /\ StopRan(req[w2])
            /\ req[w1].url = req[w2].url /\ req[w1].body = req[w2].body
            /\ ExtBeforeStop(req[w1]) = ExtBeforeStop(req[w2]))
        => /\ req[w1].pc = req[w2].pc
           /\ req[w1].resp = req[w2].resp

\* C16: /action/speak succeeds with "Done emitting requested text" exactly
\* when validation, synthesis and playback succeeded, /action/cast succeeds
\* with "Content casted" exactly when validation, synthesis, the look for
\* go-chromecast and load succeeded, and every other response has success
\* false.
C16_SuccessExactlyWhenAllSucceeded ==
    \A w \in Workers :
        LET r == req[w]
        IN /\ (r.pc = "responded" /\ r.url = UrlSpeak) =>
                /\ r.resp.success <=>
                      (json_input_text(r.body) /\ Met(r, "engine", "exit0")
                          /\ Met(r, "wav", "ok"))
                /\ r.resp.success => r.resp.reason = "Done emitting requested text"
           /\ (r.pc = "responded" /\ r.url = UrlCast) =>
                /\ r.resp.success <=>
                      (json_input_text_uid(r.body) /\ Met(r, "engine", "exit0")
                          /\ "go-chromecast" \in path /\ Met(r, "load", "exit0"))
                /\ r.resp.success => r.resp.reason = "Content casted"

ConcreteEngines == {"PICO2WAV", "ESPEAK", "ESPEAKNG"}

\* C17: AUTO is never the engine in use: resolution gives one of the three
\* concrete engines or startup ends, the name of the binary is never asked
\* for AUTO, and every request is served with a resolved engine.
C17_AutoNeverRuns ==
    /\ cfg.engine # "AUTO"
    /\ daemon = "startup_panic" => cfg.engine \in ConcreteEngines \cup {"panic"}
    /\ daemon \in {"running", "aborted"} =>
          /\ cfg.engine \in ConcreteEngines
          /\ cfg.enginepath = tts_to_bin_name(cfg.engine)
          /\ cfg.enginepath \in path
    /\ \A w \in Workers :
          req[w].pc # "idle" => cfg.engine \in ConcreteEngines

C17_Witness ==
    \E w \in Workers :
        /\ req[w].pc = "responded"
        /\ Met(req[w], "engine", "exit0")
        /\ cfg.engine \in ConcreteEngines

\* C18: a request leaves its playback and is answered only when no voice of
\* any request is active on the device.
C18_AnsweredOnlyWhenDeviceSilent ==
    [][\A w \in Workers :
          (req[w].pc = "polling" /\ req'[w].pc = "responded") => voices = {}]_vars

C18_Witness ==
    \E w1, w2 \in Workers :
        /\ req[w1].pc = "polling" /\ w1 \notin voices
        /\ w2 \in voices

\* C19: under fair scheduling, with external processes that return and
\* sentences that end, every request accepted is answered in the end.
C19_EveryRequestAnswered ==
    \A w \in Workers : (req[w].pc = "received") ~> (req[w].pc = "responded")

====
